---- MODULE Spec2Model ----
(***************************************************************************)
(* Model of the dagger launcher: the app catalog (AppManager.list_apps,    *)
(* the sub-app scan of AppManager.run_app, create_sample_app), the         *)
(* recursive menu navigation (ConfigTool.main_menu, settings_menu,         *)
(* AppManager.run_app) and the execution of an entrypoint as a child       *)
(* process.                                                                *)
(*                                                                         *)
(* Strings are sequences of one-character strings, so that the bracket     *)
(* convention, strip() and lower() are computed and not assumed.  A path   *)
(* is the sequence of the directory names below the apps root.             *)
(***************************************************************************)
EXTENDS Integers, Sequences, FiniteSets, TLC

VARIABLES
    fs,        \* the directory tree below (and including) the apps root
    cfg,       \* the shell configuration file: whether it exists, its lines, and
               \* whether the user may read and write it
    apps_dir,  \* AppManager.apps_dir
    mm,        \* the frame of ConfigTool.main_menu: its position and locals
    st,        \* the position of ConfigTool.settings_menu
    stack,     \* the frames of the active AppManager.run_app calls
    raising,   \* the exception in flight, "none" when there is none
    session,   \* whether the launcher process is running, and how it ended
    screen,    \* the menu drawn last
    nav,       \* the last choice made at a menu: which menu, and what it led to
    ev         \* what the last step did: operation, input, report, process

vars == <<fs, cfg, apps_dir, mm, st, stack, raising, session, screen, nav, ev>>

\* ---------------------------------------------------------------- bounds

\* Deepest level of [a]/[a]/.. directories in the modelled tree.
MaxDepth == 3

\* Longest shell configuration file, in lines.
MaxCfgLen == 4

\* Deepest menu (0 is the root menu) under which other processes change the
\* tree while it is open.
MaxExtDepth == 1

\* Longest shell configuration file, in lines, that the alias commands grow.
MaxAliasLen == 9

\* Longest shell configuration file, in lines, that the alias commands start
\* from.
MaxInitLen == 3

\* ---------------------------------------------------------------- names

Str_a == <<"a">>
Str_b == <<"b">>
Str_config == <<"c", "o", "n", "f", "i", "g">>

\* f"[{app_name}]"
DirName(app_name) == <<"[">> \o app_name \o <<"]">>

NameA == DirName(Str_a)
NameB == DirName(Str_b)
NameBConfig == DirName(Str_config)
NameConfig == Str_config
NameX == <<"x">>
NameF == DirName(<<"f">>)
NameMain == <<"m", "a", "i", "n", ".", "p", "y">>

\* The app names "" and "x/y", and the directories that creating them makes.
Str_empty == <<>>
Str_xy == <<"x", "/", "y">>
NameEmpty == DirName(Str_empty)
NameXyOuter == <<"[", "x">>
NameXyInner == <<"y", "]">>

\* d.startswith('[')
StartsWithBracket(d) == Len(d) >= 1 /\ d[1] = "["

\* d.endswith(']')
EndsWithBracket(d) == Len(d) >= 1 /\ d[Len(d)] = "]"

\* d[1:-1]
Unwrap(d) == SubSeq(d, 2, Len(d) - 1)

RECURSIVE SplitPath(_, _)
\* The components of a relative path: name split at every "/", cur being the
\* component read so far.
SplitPath(name, cur) ==
    IF name = <<>> THEN <<cur>>
    ELSE IF Head(name) = "/" THEN <<cur>> \o SplitPath(Tail(name), <<>>)
    ELSE SplitPath(Tail(name), Append(cur, Head(name)))

\* os.path.join(base, name): the components of name below base
Join(base, name) ==
    IF \E i \in 1..Len(name) : name[i] = "/"
    THEN base \o SplitPath(name, <<>>)
    ELSE Append(base, name)

\* ---------------------------------------------------------------- the tree

RootPath == <<>>

\* [a]/[a]/../[a], k levels below the root
SpineDir(k) == [i \in 1..k |-> NameA]

\* the sibling [b] at level k
SideDir(k) == Join(SpineDir(k - 1), NameB)

AppDirs == {SpineDir(k) : k \in 1..MaxDepth} \cup {SideDir(k) : k \in 1..MaxDepth}

ExtraDirs == {<<NameBConfig>>, <<NameConfig>>, <<NameX>>, <<NameEmpty>>}

\* What create_sample_app("x/y") makes: [x, and y] below it.
SplitDirs == {<<NameXyOuter>>, <<NameXyOuter, NameXyInner>>}

ExtraFiles == {<<NameF>>}

EntryFiles ==
    {Join(d, NameMain) : d \in AppDirs \cup {<<NameBConfig>>, <<NameEmpty>>,
                                             <<NameXyOuter, NameXyInner>>}}

Nodes ==
    {RootPath} \cup AppDirs \cup ExtraDirs \cup SplitDirs \cup ExtraFiles \cup EntryFiles

\* The order in which os.listdir enumerates the names of a directory.
NameOrder ==
    <<NameMain, NameB, NameA, NameF, NameBConfig, NameConfig, NameX,
      NameXyOuter, NameXyInner, NameEmpty>>

KindOf(p) == IF p \in EntryFiles \cup ExtraFiles THEN "file" ELSE "dir"

\* A file holds the sample program that _create_main_py writes, other text, or
\* nothing (opened for writing, the write failed).
FileKinds == {"file", "sample", "empty"}

\* os.path.exists
Exists(f, p) == p \in DOMAIN f /\ f[p] # "absent"

\* os.path.isdir
IsDir(f, p) == p \in DOMAIN f /\ f[p] = "dir"

\* os.listdir raises OSError unless p is a readable directory
CanList(f, p) == IsDir(f, p)

\* os.listdir(p), for a readable directory
ListDir(f, p) == SelectSeq(NameOrder, LAMBDA n : Exists(f, Join(p, n)))

\* ---------------------------------------------------------------- catalog

\* the d != "config" test of list_apps
NotReserved(d) == d # NameConfig

\* the bracket test of list_apps and of the sub-app scan
IsBracketed(d) == StartsWithBracket(d) /\ EndsWithBracket(d)

\* list_apps that answers every root it cannot list with a silent empty list
ListsSilently(f, dir) ==
    IF ~CanList(f, dir) THEN [err |-> FALSE, apps |-> <<>>]
    ELSE LET all_dirs == SelectSeq(ListDir(f, dir),
                            LAMBDA d : IsDir(f, Join(dir, d)) /\ NotReserved(d))
             app_dirs == SelectSeq(all_dirs, IsBracketed)
         IN [err |-> FALSE, apps |-> [i \in 1..Len(app_dirs) |-> Unwrap(app_dirs[i])]]

\* AppManager.list_apps: [err |-> an OSError was reported, apps |-> the list]
list_apps(f, dir) ==
    IF ~Exists(f, dir) THEN [err |-> FALSE, apps |-> <<>>]
    ELSE IF ~CanList(f, dir) THEN [err |-> TRUE, apps |-> <<>>]
    ELSE LET all_dirs == SelectSeq(ListDir(f, dir),
                            LAMBDA d : IsDir(f, Join(dir, d)) /\ NotReserved(d))
             app_dirs == SelectSeq(all_dirs, IsBracketed)
         IN [err |-> FALSE, apps |-> [i \in 1..Len(app_dirs) |-> Unwrap(app_dirs[i])]]

\* the sub-app scan at the head of AppManager.run_app
scan_sub_apps(f, app_dir) ==
    IF ~CanList(f, app_dir) THEN <<>>
    ELSE LET items == SelectSeq(ListDir(f, app_dir),
                         LAMBDA item : IsDir(f, Join(app_dir, item)) /\ IsBracketed(item))
         IN [i \in 1..Len(items) |-> Unwrap(items[i])]

\* ---------------------------------------------------------------- input

\* What a prompt receives: a typed line, end of input, or an interrupt.
Line(text) == [kind |-> "line", text |-> text]
KeyEOF == [kind |-> "eof", text |-> <<>>]
KeyIntr == [kind |-> "intr", text |-> <<>>]
NoKey == [kind |-> "none", text |-> <<>>]

\* The lines typed at the menu prompts.
MenuLines ==
    { <<"q">>, <<"b">>, <<"s">>, <<"x">>, <<>>,
      <<"0">>, <<"1">>, <<"2">>, <<"3">>, <<"0", "1">>, <<"²">>,
      <<"Q">>, <<" ", "q", " ">>, <<" ", "2">> }

MenuKeys == {Line(t) : t \in MenuLines} \cup {KeyEOF, KeyIntr}

\* The lines typed at the prompt of the settings menu.
SettingsLines == { <<"b">>, <<"n">>, <<"a">>, <<"r">>, <<"q">>, <<"1">>, <<" ", "B">> }

SettingsKeys == {Line(t) : t \in SettingsLines} \cup {KeyEOF, KeyIntr}

\* The lines typed at the "name for the new app" prompt.
NameLines == { <<>>, <<" ">>, Str_b, <<" ", "b", " ">>, Str_config }

NameKeys == {Line(t) : t \in NameLines} \cup {KeyEOF, KeyIntr}

\* The lines typed at "Press Enter to continue...".
PauseKeys == {Line(<<>>), KeyEOF, KeyIntr}

AsciiDigits == <<"0", "1", "2", "3", "4", "5", "6", "7", "8", "9">>

IsAsciiDigit(c) == \E i \in 1..10 : AsciiDigits[i] = c

DigitValue(c) == (CHOOSE i \in 1..10 : AsciiDigits[i] = c) - 1

\* str.isdigit(): every character has the Unicode digit property (superscript
\* two has it), and there is at least one character
isdigit(s) == Len(s) >= 1 /\ \A i \in 1..Len(s) : IsAsciiDigit(s[i]) \/ s[i] = "²"

\* int(s) raises ValueError unless every character is a decimal digit
int_ok(s) == Len(s) >= 1 /\ \A i \in 1..Len(s) : IsAsciiDigit(s[i])

RECURSIVE int_of(_)
\* int(s), for a string of decimal digits
int_of(s) ==
    IF Len(s) = 0 THEN 0
    ELSE 10 * int_of(SubSeq(s, 1, Len(s) - 1)) + DigitValue(s[Len(s)])

RECURSIVE lstrip(_)
lstrip(s) == IF Len(s) >= 1 /\ s[1] = " " THEN lstrip(Tail(s)) ELSE s

RECURSIVE rstrip(_)
rstrip(s) ==
    IF Len(s) >= 1 /\ s[Len(s)] = " " THEN rstrip(SubSeq(s, 1, Len(s) - 1)) ELSE s

\* str.strip()
strip(s) == rstrip(lstrip(s))

LowerChar(c) ==
    CASE c = "Q" -> "q"
      [] c = "B" -> "b"
      [] c = "S" -> "s"
      [] OTHER -> c

\* str.lower()
lower(s) == [i \in 1..Len(s) |-> LowerChar(s[i])]

\* apps.config.ui.UI.get_input, the prompt of main_menu and settings_menu
ui_get_input(key) ==
    IF key.kind = "line" THEN lower(strip(key.text)) ELSE <<"q">>

\* UI.get_input of app_manager.py, the prompt of run_app: a bare input()
\* [raises |-> the exception, value |-> the line]
am_get_input(key) ==
    CASE key.kind = "line" -> [raises |-> "none", value |-> key.text]
      [] key.kind = "eof" -> [raises |-> "EOFError", value |-> <<>>]
      [] OTHER -> [raises |-> "KeyboardInterrupt", value |-> <<>>]

\* ---------------------------------------------------------------- menus

\* One line of a menu box: its number (0 when it has none), what it offers, and
\* the name it shows.
MenuLine(num, tag, name) == [num |-> num, tag |-> tag, name |-> name]

Sep == MenuLine(0, "separator", <<>>)

\* ConfigTool.build_menu_content
build_menu_content(apps) ==
    <<MenuLine(0, "title", <<>>), Sep>>
    \o (IF apps # <<>>
        THEN <<MenuLine(0, "apps_header", <<>>)>>
             \o [i \in 1..Len(apps) |-> MenuLine(i, "app", apps[i])]
        ELSE <<MenuLine(0, "no_apps", <<>>)>>)
    \o <<Sep, MenuLine(0, "options_header", <<>>),
         MenuLine(0, "settings", <<>>), MenuLine(0, "quit", <<>>)>>

\* the content of the settings menu
settings_content(alias_set) ==
    <<MenuLine(0, "title", <<>>), Sep, MenuLine(0, "options_header", <<>>),
      MenuLine(0, "new_app", <<>>),
      MenuLine(0, IF alias_set THEN "remove_alias" ELSE "add_alias", <<>>),
      MenuLine(0, "back", <<>>)>>

\* run_app, lines 186-189: the title and, with an entrypoint, "1. Run this app"
group_head(f, app_name, path) ==
    <<MenuLine(0, "title", app_name), Sep>>
    \o (IF Exists(f, path) THEN <<MenuLine(1, "run", <<>>), Sep>> ELSE <<>>)

OffsetAlwaysOne(f, path) == 1

\* run_app, line 190
group_offset(f, path) == IF Exists(f, path) THEN 2 ELSE 1

\* run_app, lines 191-195: the numbered sub-apps, back and quit
group_tail(sub_apps, offset) ==
    [i \in 1..Len(sub_apps) |-> MenuLine(offset + i - 1, "sub", sub_apps[i])]
    \o <<Sep, MenuLine(0, "back", <<>>), MenuLine(0, "quit", <<>>)>>

NoScreen == [menu |-> "none", depth |-> 0, content |-> <<>>]

\* ---------------------------------------------------------------- alias

MarkerStart == "start"
MarkerEnd == "end"
AliasLine == "alias"
BlankLine == ""

\* ConfigManager.is_alias_set: False for a missing file and, after the error
\* "Reading config file", for one that open() may not read
is_alias_set(c) ==
    c.exists /\ c.readable /\ \E i \in 1..Len(c.lines) : c.lines[i] = MarkerStart

\* ConfigManager.add_alias: the text appended to the file
alias_block == <<BlankLine, MarkerStart, AliasLine, MarkerEnd>>

RECURSIVE remove_loop(_, _)
\* the loop of ConfigManager.remove_alias over the lines still to read
remove_loop(lines, skip) ==
    IF lines = <<>> THEN <<>>
    ELSE LET line == Head(lines)
         IN IF line = MarkerStart THEN remove_loop(Tail(lines), TRUE)
            ELSE IF line = MarkerEnd THEN remove_loop(Tail(lines), FALSE)
            ELSE IF ~skip THEN <<line>> \o remove_loop(Tail(lines), skip)
            ELSE remove_loop(Tail(lines), skip)

\* ---------------------------------------------------------------- frames

\* A call of run_app(app_name) made while apps_dir = base: lines 170-172.
Frame(app_name, base) ==
    [ app_name |-> app_name,
      app_dir |-> Join(base, DirName(app_name)),
      sub_apps |-> <<>>,
      content |-> <<>>,
      offset |-> 0,
      index |-> 0,
      original_apps_dir |-> <<>>,
      pc |-> "scan" ]

app_path(fr) == Join(fr.app_dir, NameMain)

Top == stack[Len(stack)]

NoResult == [code |-> 0, stderr |-> ""]

Event(op, key, report, text, target) ==
    [op |-> op, key |-> key, report |-> report, text |-> text, target |-> target,
     result |-> NoResult]

Choice(menu, depth, act) == [menu |-> menu, depth |-> depth, act |-> act]

\* ---------------------------------------------------------------- dispatch

Outcome(act, index) == [act |-> act, index |-> index]

\* main_choice with "b" leaving the root menu as "q" does
BackQuits(choice, apps) ==
    IF choice \in {<<"q">>, <<"b">>} THEN Outcome("quit", 0)
    ELSE IF choice = <<"s">> THEN Outcome("settings", 0)
    ELSE IF isdigit(choice)
    THEN IF ~int_ok(choice) THEN Outcome("ValueError", 0)
         ELSE LET index == int_of(choice) - 1
              IN IF 0 <= index /\ index < Len(apps)
                 THEN Outcome("run", index)
                 ELSE Outcome("invalid_number", 0)
    ELSE Outcome("invalid_choice", 0)

\* main_choice with the numeral taken as the index itself, from 0
NumeralIsIndex(choice, apps) ==
    IF choice = <<"q">> THEN Outcome("quit", 0)
    ELSE IF choice = <<"s">> THEN Outcome("settings", 0)
    ELSE IF isdigit(choice)
    THEN IF ~int_ok(choice) THEN Outcome("ValueError", 0)
         ELSE LET index == int_of(choice)
              IN IF 0 <= index /\ index < Len(apps)
                 THEN Outcome("run", index)
                 ELSE Outcome("invalid_number", 0)
    ELSE Outcome("invalid_choice", 0)

\* ConfigTool.main_menu, lines 56-69: what a choice leads to
main_choice(choice, apps) ==
    IF choice = <<"q">> THEN Outcome("quit", 0)
    ELSE IF choice = <<"s">> THEN Outcome("settings", 0)
    ELSE IF isdigit(choice)
    THEN IF ~int_ok(choice) THEN Outcome("ValueError", 0)
         ELSE LET index == int_of(choice) - 1
              IN IF 0 <= index /\ index < Len(apps)
                 THEN Outcome("run", index)
                 ELSE Outcome("invalid_number", 0)
    ELSE Outcome("invalid_choice", 0)

\* group_choice with the numeral taken as the index from 1, whatever the offset
IndexFromOne(choice, has_main, offset, sub_apps) ==
    IF choice = <<"b">> THEN Outcome("back", 0)
    ELSE IF choice = <<"q">> THEN Outcome("exit", 0)
    ELSE IF choice = <<"1">> /\ has_main THEN Outcome("run", 0)
    ELSE IF isdigit(choice)
    THEN IF ~int_ok(choice) THEN Outcome("ValueError", 0)
         ELSE LET index == int_of(choice) - 1
              IN IF 0 <= index /\ index < Len(sub_apps)
                 THEN Outcome("descend", index)
                 ELSE Outcome("invalid_number", 0)
    ELSE Outcome("invalid_choice", 0)

\* group_choice with "q" leaving only the current level
QuitGoesBack(choice, has_main, offset, sub_apps) ==
    IF choice \in {<<"b">>, <<"q">>} THEN Outcome("back", 0)
    ELSE IF choice = <<"1">> /\ has_main THEN Outcome("run", 0)
    ELSE IF isdigit(choice)
    THEN IF ~int_ok(choice) THEN Outcome("ValueError", 0)
         ELSE LET index == int_of(choice) - offset
              IN IF 0 <= index /\ index < Len(sub_apps)
                 THEN Outcome("descend", index)
                 ELSE Outcome("invalid_number", 0)
    ELSE Outcome("invalid_choice", 0)

\* AppManager.run_app, lines 200-219: what a choice leads to
group_choice(choice, has_main, offset, sub_apps) ==
    IF choice = <<"b">> THEN Outcome("back", 0)
    ELSE IF choice = <<"q">> THEN Outcome("exit", 0)
    ELSE IF choice = <<"1">> /\ has_main THEN Outcome("run", 0)
    ELSE IF isdigit(choice)
    THEN IF ~int_ok(choice) THEN Outcome("ValueError", 0)
         ELSE LET index == int_of(choice) - offset
              IN IF 0 <= index /\ index < Len(sub_apps)
                 THEN Outcome("descend", index)
                 ELSE Outcome("invalid_number", 0)
    ELSE Outcome("invalid_choice", 0)

\* create_sample_app without the test for an existing app: main.py is written
\* again
CreateOverwrites(f, dir, app_name, io) ==
    LET path == Join(dir, DirName(app_name))
    IN [tree |-> [f EXCEPT ![path] = "dir", ![Join(path, NameMain)] = "sample"],
        report |-> "none"]

\* What the file system lets a create_sample_app call do.
CreateOutcomes == {"ok", "mkdir_fail", "write_fail", "truncated"}

\* AppManager.create_sample_app: [tree |-> the tree afterwards, report |-> ..]
\* io is what the file system lets through: "ok", "mkdir_fail" (os.makedirs
\* raises), "write_fail" (open raises) or "truncated" (open creates main.py,
\* f.write raises)
create_sample_app(f, dir, app_name, io) ==
    LET path == Join(dir, DirName(app_name))
        \* os.makedirs: the directory and every missing directory above it
        made == [p \in DOMAIN f |->
                    IF f[p] = "absent" /\ \E k \in 0..Len(path) : p = SubSeq(path, 1, k)
                    THEN "dir" ELSE f[p]]
    IN IF Exists(f, path) THEN [tree |-> f, report |-> "AlreadyExists"]
       ELSE IF io = "mkdir_fail" \/ f[RootPath] \in FileKinds
       THEN [tree |-> f, report |-> "CreateFailed"]
       ELSE IF io = "write_fail"
       THEN [tree |-> made, report |-> "CreateFailed"]
       ELSE IF io = "truncated"
       THEN [tree |-> [made EXCEPT ![Join(path, NameMain)] = "empty"],
             report |-> "CreateFailed"]
       ELSE [tree |-> [made EXCEPT ![Join(path, NameMain)] = "sample"],
             report |-> "none"]

\* ---------------------------------------------------------------- Init

RECURSIVE SpineTrees(_)
\* The trees rooted at [a] of level k: with or without main.py, with or
\* without a runnable [b] below, with or without a further [a] below.
SpineTrees(k) ==
    LET d == SpineDir(k)
        mains == {{}, {Join(d, NameMain)}}
        sides == IF k < MaxDepth
                 THEN {{}, {SideDir(k + 1), Join(SideDir(k + 1), NameMain)}}
                 ELSE {{}}
        deeper == IF k < MaxDepth THEN {{}} \cup SpineTrees(k + 1) ELSE {{}}
    IN {({d} \cup m) \cup (s \cup e) : m \in mains, s \in sides, e \in deeper}

RootSides == {{}, {SideDir(1)}, {SideDir(1), Join(SideDir(1), NameMain)}}

Extras == ExtraDirs \cup ExtraFiles

\* The sets of paths present below a readable apps root: every app tree, with
\* all the extra entries ...
DeepSets ==
    {(t \cup s) \cup Extras : t \in {{}} \cup SpineTrees(1), s \in RootSides}

\* ... and every set of extra entries, with one app.
FlatSets ==
    {{SideDir(1), Join(SideDir(1), NameMain)} \cup e : e \in SUBSET Extras}

TreeOf(rootKind, present) ==
    [p \in Nodes |-> IF p = RootPath THEN rootKind
                     ELSE IF p \in present THEN KindOf(p) ELSE "absent"]

\* After AppManager.__init__: the apps root is a directory (found or just
\* created), or it could not be created, or it is not a readable directory.
DeepTrees == {TreeOf("dir", x) : x \in DeepSets}

FlatTrees ==
    {TreeOf("dir", x) : x \in FlatSets}
    \cup {TreeOf(k, {}) : k \in {"dir", "absent", "file", "noperm"}}

\* No shell configuration file yet; the user may create it, or may not.
NoCfg(writable) ==
    [exists |-> FALSE, lines |-> <<>>, readable |-> TRUE, writable |-> writable]

\* The names given to the command `run <name>`.
RunNames == {Str_a, Str_b, <<"z">>}

\* The names given to the command `new <name>`.
NewNames == {Str_empty, Str_b, Str_xy}

\* AppManager._ensure_apps_dir: a root that is still missing after the
\* constructor is one that os.makedirs could not create, which was reported.
ensure_report(f) == IF Exists(f, RootPath) THEN "none" ELSE "CreateDirFailed"

Init ==
    /\ \/ fs \in DeepTrees /\ cfg = NoCfg(FALSE)
       \/ fs \in FlatTrees /\ cfg \in {NoCfg(TRUE), NoCfg(FALSE)}
    /\ apps_dir = RootPath
    /\ \/ /\ mm = [cmd |-> "menu", arg |-> <<>>, pc |-> "render", apps |-> <<>>,
                   alias_set |-> FALSE]
          /\ stack = <<>>
       \/ /\ \E n \in RunNames :
                /\ mm = [cmd |-> "run", arg |-> n, pc |-> "call", apps |-> <<>>,
                         alias_set |-> FALSE]
                /\ stack = <<Frame(n, RootPath)>>
       \/ /\ \E n \in NewNames :
                mm = [cmd |-> "new", arg |-> n, pc |-> "call", apps |-> <<>>,
                      alias_set |-> FALSE]
          /\ stack = <<>>
    /\ st = [pc |-> "idle", alias_set |-> FALSE]
    /\ raising = "none"
    /\ session = "running"
    /\ screen = NoScreen
    /\ nav = Choice("none", 0, "none")
    /\ ev = Event("start", NoKey, ensure_report(fs), {}, <<>>)


\* ---------------------------------------------------------------- main menu

Running == session = "running" /\ raising = "none"

\* ConfigTool.main_menu, lines 48-52: list the apps and draw the menu
MainRender ==
    /\ Running /\ mm.cmd = "menu" /\ mm.pc = "render"
    /\ LET r == list_apps(fs, apps_dir)
       IN /\ mm' = [mm EXCEPT !.pc = "input", !.apps = r.apps,
                              !.alias_set = is_alias_set(cfg)]
          /\ screen' = [menu |-> "root", depth |-> 0,
                        content |-> build_menu_content(r.apps)]
          /\ ev' = Event("MainRender", NoKey,
                         IF r.err THEN "ListingError" ELSE "none", {}, <<>>)
    /\ UNCHANGED <<fs, cfg, apps_dir, st, stack, raising, session, nav>>

\* ConfigTool.main_menu, lines 54-69: read a choice and act on it
MainInput(key) ==
    /\ Running /\ mm.cmd = "menu" /\ mm.pc = "input"
    /\ LET o == main_choice(ui_get_input(key), mm.apps)
       IN /\ mm' = [mm EXCEPT !.pc = CASE o.act = "quit" -> "done"
                                       [] o.act = "settings" -> "settings"
                                       [] o.act = "run" -> "call"
                                       [] o.act = "ValueError" -> "input"
                                       [] OTHER -> "render"]
          /\ session' = IF o.act = "quit" THEN "quit" ELSE session
          /\ st' = IF o.act = "settings" THEN [st EXCEPT !.pc = "render"] ELSE st
          /\ stack' = IF o.act = "run"
                      THEN <<Frame(mm.apps[o.index + 1], apps_dir)>> ELSE stack
          /\ raising' = IF o.act = "ValueError" THEN "ValueError" ELSE raising
          /\ ev' = Event("MainInput", key,
                         CASE o.act = "invalid_number" -> "InvalidAppNumber"
                           [] o.act = "invalid_choice" -> "InvalidChoice"
                           [] OTHER -> "none", {}, <<>>)
          /\ nav' = Choice("root", 0, o.act)
    /\ UNCHANGED <<fs, cfg, apps_dir, screen>>

\* ---------------------------------------------------------------- settings

\* ConfigTool.settings_menu, lines 78-85
SettingsRender ==
    /\ Running /\ mm.pc = "settings" /\ st.pc = "render"
    /\ st' = [pc |-> "input", alias_set |-> is_alias_set(cfg)]
    /\ screen' = [menu |-> "settings", depth |-> 0,
                  content |-> settings_content(is_alias_set(cfg))]
    /\ ev' = Event("SettingsRender", NoKey, "none", {}, <<>>)
    /\ UNCHANGED <<fs, cfg, apps_dir, mm, stack, raising, session, nav>>

\* ConfigManager.add_alias; the append raises IOError on a file the user may
\* not write
add_alias(c) ==
    IF is_alias_set(c) THEN [file |-> c, report |-> "none"]
    ELSE IF ~c.writable THEN [file |-> c, report |-> "AddAliasError"]
    ELSE [file |-> [c EXCEPT !.exists = TRUE, !.lines = c.lines \o alias_block],
          report |-> "none"]

\* ConfigManager.remove_alias; reading raises IOError on a file the user may
\* not read, the rewrite on one the user may not write
remove_alias(c) ==
    IF ~c.exists THEN [file |-> c, report |-> "none"]
    ELSE IF ~c.readable \/ ~c.writable THEN [file |-> c, report |-> "RemoveAliasError"]
    ELSE [file |-> [c EXCEPT !.lines = remove_loop(c.lines, FALSE)],
          report |-> "none"]

\* ConfigTool.settings_menu, lines 87-105, up to the prompt for a name
SettingsInput(key) ==
    /\ Running /\ mm.pc = "settings" /\ st.pc = "input"
    /\ LET choice == ui_get_input(key)
           adds == choice = <<"a">> /\ ~st.alias_set
           removes == choice = <<"r">> /\ st.alias_set
           r == IF adds THEN add_alias(cfg)
                ELSE IF removes THEN remove_alias(cfg)
                ELSE [file |-> cfg, report |->
                        IF choice \in {<<"b">>, <<"n">>} THEN "none"
                        ELSE "InvalidChoice"]
       IN /\ adds => Len(cfg.lines) + Len(alias_block) <= MaxCfgLen
          /\ st' = [st EXCEPT !.pc = CASE choice = <<"b">> -> "idle"
                                       [] choice = <<"n">> -> "name"
                                       [] OTHER -> "render"]
          /\ mm' = IF choice = <<"b">> THEN [mm EXCEPT !.pc = "render"] ELSE mm
          /\ cfg' = r.file
          /\ ev' = Event("SettingsInput", key, r.report, {}, <<>>)
          /\ nav' = Choice("settings", 0,
                           CASE choice = <<"b">> -> "back"
                             [] choice = <<"n">> -> "new"
                             [] adds -> "add_alias"
                             [] removes -> "remove_alias"
                             [] OTHER -> "invalid_choice")
    /\ UNCHANGED <<fs, apps_dir, stack, raising, session, screen>>

\* ConfigTool.settings_menu, lines 91-99: the name prompt and create_sample_app
SettingsName(key, io) ==
    /\ Running /\ mm.pc = "settings" /\ st.pc = "name"
    /\ LET app_name == strip(key.text)
           r == IF key.kind # "line" THEN [tree |-> fs, report |-> "none"]
                ELSE IF app_name = <<>> THEN [tree |-> fs, report |-> "EmptyName"]
                ELSE create_sample_app(fs, apps_dir, app_name, io)
       IN /\ fs' = r.tree
          /\ ev' = Event("SettingsName", key, r.report, {},
                         IF key.kind = "line" /\ app_name # <<>>
                         THEN Join(apps_dir, DirName(app_name)) ELSE <<>>)
    /\ st' = [st EXCEPT !.pc = "render"]
    /\ UNCHANGED <<cfg, apps_dir, mm, stack, raising, session, screen, nav>>

\* ConfigTool.process_command_line, lines 149-150: the command `new <name>`
NewCommand(io) ==
    /\ Running /\ mm.cmd = "new" /\ mm.pc = "call"
    /\ LET r == create_sample_app(fs, apps_dir, mm.arg, io)
       IN /\ fs' = r.tree
          /\ ev' = Event("NewCommand", NoKey, r.report, {},
                         Join(apps_dir, DirName(mm.arg)))
    /\ mm' = [mm EXCEPT !.pc = "done"]
    /\ session' = "done"
    /\ UNCHANGED <<cfg, apps_dir, st, stack, raising, screen, nav>>

\* ---------------------------------------------------------------- run_app

InRunApp(pc) == Running /\ stack # <<>> /\ Top.pc = pc

SetTop(fr) == [stack EXCEPT ![Len(stack)] = fr]

\* A return of the top run_app call: its caller is the run_app below it (inside
\* the try of line 210), main_menu (line 65), or the command `run` (line 152).
PoppedStack ==
    IF Len(stack) > 1
    THEN [i \in 1..(Len(stack) - 1) |->
            IF i = Len(stack) - 1 THEN [stack[i] EXCEPT !.pc = "returned"]
            ELSE stack[i]]
    ELSE <<>>

MmAfterReturn ==
    IF Len(stack) > 1 THEN mm
    ELSE [mm EXCEPT !.pc = IF mm.cmd = "menu" THEN "render" ELSE "done"]

SessionAfterReturn ==
    IF Len(stack) = 1 /\ mm.cmd = "run" THEN "done" ELSE session

\* run_app, lines 174-184: scan for sub-apps, then the menu or the entrypoint
Scan ==
    /\ InRunApp("scan")
    /\ LET subs == scan_sub_apps(fs, Top.app_dir)
       IN stack' = SetTop([Top EXCEPT !.sub_apps = subs,
                                      !.pc = IF subs # <<>> THEN "head" ELSE "check"])
    /\ ev' = Event("Scan", NoKey, "none", {}, Top.app_dir)
    /\ UNCHANGED <<fs, cfg, apps_dir, mm, st, raising, session, screen, nav>>

\* run_app, lines 186-189
RenderHead ==
    /\ InRunApp("head")
    /\ stack' = SetTop([Top EXCEPT !.content = group_head(fs, Top.app_name, app_path(Top)),
                                   !.pc = "body"])
    /\ ev' = Event("RenderHead", NoKey, "none", {}, Top.app_dir)
    /\ UNCHANGED <<fs, cfg, apps_dir, mm, st, raising, session, screen, nav>>

\* run_app, lines 190-197
RenderBody ==
    /\ InRunApp("body")
    /\ LET offset == group_offset(fs, app_path(Top))
           content == Top.content \o group_tail(Top.sub_apps, offset)
       IN /\ stack' = SetTop([Top EXCEPT !.offset = offset, !.content = content,
                                         !.pc = "input"])
          /\ screen' = [menu |-> "group", depth |-> Len(stack), content |-> content]
    /\ ev' = Event("RenderBody", NoKey, "none", {}, Top.app_dir)
    /\ UNCHANGED <<fs, cfg, apps_dir, mm, st, raising, session, nav>>

\* run_app, lines 198-219: read a choice and act on it
GroupInput(key) ==
    /\ InRunApp("input")
    /\ LET got == am_get_input(key)
           o == IF got.raises # "none" THEN Outcome(got.raises, 0)
                ELSE group_choice(got.value, Exists(fs, app_path(Top)),
                                  Top.offset, Top.sub_apps)
           below == Join(apps_dir, DirName(Top.app_name))
       IN /\ stack' =
                CASE o.act = "back" -> PoppedStack
                  [] o.act = "run" -> SetTop([Top EXCEPT !.pc = "check"])
                  [] o.act = "descend" ->
                        Append(SetTop([Top EXCEPT !.pc = "call", !.index = o.index,
                                                  !.original_apps_dir = apps_dir]),
                               Frame(Top.sub_apps[o.index + 1], below))
                  [] o.act \in {"invalid_number", "invalid_choice"} ->
                        SetTop([Top EXCEPT !.pc = "head"])
                  [] OTHER -> stack
          /\ apps_dir' = IF o.act = "descend" THEN below ELSE apps_dir
          /\ mm' = IF o.act = "back" THEN MmAfterReturn ELSE mm
          /\ session' = IF o.act = "back" THEN SessionAfterReturn ELSE session
          /\ raising' =
                CASE o.act = "exit" -> "SystemExit"
                  [] o.act \in {"ValueError", "EOFError", "KeyboardInterrupt"} -> o.act
                  [] OTHER -> raising
          /\ ev' = Event("GroupInput", key,
                         CASE o.act = "invalid_number" -> "InvalidSubAppNumber"
                           [] o.act = "invalid_choice" -> "InvalidChoice"
                           [] OTHER -> "none", {}, Top.app_dir)
          /\ nav' = Choice("group", Len(stack), o.act)
    /\ UNCHANGED <<fs, cfg, st, screen>>

LoopAgain == "head"

\* run_app, line 215: after the descent the level returns
after_descent == "return"

\* A descent whose swap is never undone: apps_dir stays at the group's own
\* directory.
KeepsSwappedRoot(fr) == fr.app_dir

\* run_app, lines 213-214: finally: self.apps_dir = original_apps_dir
restored_apps_dir(fr) == fr.original_apps_dir

\* run_app, lines 213-215: the descent has returned; restore apps_dir, return
AfterDescent ==
    /\ InRunApp("returned")
    /\ apps_dir' = restored_apps_dir(Top)
    /\ stack' = IF after_descent = "return" THEN PoppedStack
                ELSE SetTop([Top EXCEPT !.pc = after_descent])
    /\ mm' = IF after_descent = "return" THEN MmAfterReturn ELSE mm
    /\ session' = IF after_descent = "return" THEN SessionAfterReturn ELSE session
    /\ ev' = Event("AfterDescent", NoKey, "none", {}, Top.app_dir)
    /\ UNCHANGED <<fs, cfg, st, raising, screen, nav>>

ChecksDirectory(f, fr) == Exists(f, fr.app_dir)

\* run_app, line 221: os.path.exists(app_path)
has_entrypoint(f, fr) == Exists(f, app_path(fr))

\* run_app, lines 221-223
CheckEntrypoint ==
    /\ InRunApp("check")
    /\ IF has_entrypoint(fs, Top)
       THEN /\ stack' = SetTop([Top EXCEPT !.pc = "launch"])
            /\ ev' = Event("CheckEntrypoint", NoKey, "none", {}, app_path(Top))
            /\ UNCHANGED <<mm, session>>
       ELSE /\ stack' = PoppedStack
            /\ mm' = MmAfterReturn
            /\ session' = SessionAfterReturn
            /\ ev' = Event("CheckEntrypoint", NoKey, "NoEntrypoint", {}, app_path(Top))
    /\ UNCHANGED <<fs, cfg, apps_dir, st, raising, screen, nav>>

\* A launch that does not wait for the child: the call goes on to its pause.
LaunchDetached == "pause"

\* run_app, line 227: subprocess.run returns when the child has exited; until
\* then the call is at "running"
launch_call == "running"

\* run_app, lines 225-227: subprocess.run starts the child, or Popen raises
\* OSError, which is no subprocess.SubprocessError
Launch(spawned) ==
    /\ InRunApp("launch")
    /\ IF spawned
       THEN /\ stack' = SetTop([Top EXCEPT !.pc = launch_call])
            /\ ev' = Event("Launch", NoKey, "none", {}, app_path(Top))
            /\ UNCHANGED raising
       ELSE /\ raising' = "OSError"
            /\ ev' = Event("SpawnFailed", NoKey, "none", {}, app_path(Top))
            /\ UNCHANGED stack
    /\ UNCHANGED <<fs, cfg, apps_dir, mm, st, session, screen, nav>>

\* How a child ends: its exit status and what it wrote to stderr.
ChildResults == [code : {0, 1}, stderr : {"", "boom"}]

\* str(CalledProcessError): the command and the exit status
called_process_error_text == {"Command", "returned non-zero exit status"}

\* run_app, lines 228-237: the error shown for a finished child
run_report(result) ==
    IF result.code # 0
    THEN [report |-> "RunError",
          text |-> {"Running app"} \cup called_process_error_text]
    ELSE IF result.stderr # ""
    THEN [report |-> "ChildStderr", text |-> {"Errors:", result.stderr}]
    ELSE [report |-> "none", text |-> {}]

\* run_app, lines 227-237: the child has exited
ChildExit(result) ==
    /\ InRunApp("running")
    /\ stack' = SetTop([Top EXCEPT !.pc = "pause"])
    /\ ev' = [Event("ChildExit", NoKey, run_report(result).report,
                    run_report(result).text, app_path(Top))
              EXCEPT !.result = result]
    /\ UNCHANGED <<fs, cfg, apps_dir, mm, st, raising, session, screen, nav>>

\* run_app, line 227: the user interrupts the launcher while the child runs
ChildInterrupted ==
    /\ InRunApp("running")
    /\ raising' = "KeyboardInterrupt"
    /\ ev' = Event("ChildInterrupted", NoKey, "none", {}, app_path(Top))
    /\ UNCHANGED <<fs, cfg, apps_dir, mm, st, stack, session, screen, nav>>

\* run_app, lines 235 and 239: "Press Enter to continue...", a bare input()
Pause(key) ==
    /\ InRunApp("pause")
    /\ LET got == am_get_input(key)
       IN /\ stack' = IF got.raises = "none" THEN PoppedStack ELSE stack
          /\ mm' = IF got.raises = "none" THEN MmAfterReturn ELSE mm
          /\ session' = IF got.raises = "none" THEN SessionAfterReturn ELSE session
          /\ raising' = got.raises
    /\ ev' = Event("Pause", key, "none", {}, app_path(Top))
    /\ UNCHANGED <<fs, cfg, apps_dir, st, screen, nav>>

\* ---------------------------------------------------------------- exceptions

\* except Exception (config_tool.py line 70) catches these; SystemExit and
\* KeyboardInterrupt are BaseExceptions and pass.
IsException(e) == e \in {"ValueError", "EOFError", "OSError"}

\* An exception leaves the top run_app frame; a frame inside the try of line
\* 210 runs its finally (line 214) on the way.
Unwind ==
    /\ session = "running" /\ raising # "none" /\ stack # <<>>
    /\ apps_dir' = IF Top.pc = "call" THEN restored_apps_dir(Top) ELSE apps_dir
    /\ stack' = IF Len(stack) > 1
                THEN [SubSeq(stack, 1, Len(stack) - 1) EXCEPT ![Len(stack) - 1].pc = "call"]
                ELSE <<>>
    /\ ev' = Event("Unwind", NoKey, "none", {}, Top.app_dir)
    /\ UNCHANGED <<fs, cfg, mm, st, raising, session, screen, nav>>

\* The exception reaches main_menu (lines 70-71) or leaves the program.
Escape ==
    /\ session = "running" /\ raising # "none" /\ stack = <<>>
    /\ session' = CASE raising = "SystemExit" -> "exit"
                    [] raising = "KeyboardInterrupt" -> "interrupted"
                    [] mm.cmd = "menu" /\ IsException(raising) -> "error"
                    [] OTHER -> "traceback"
    /\ mm' = [mm EXCEPT !.pc = "done"]
    /\ raising' = "none"
    /\ ev' = Event("Escape", NoKey,
                   IF mm.cmd = "menu" /\ IsException(raising)
                   THEN "UnexpectedError" ELSE "none",
                   IF mm.cmd = "menu" /\ IsException(raising) THEN {raising} ELSE {},
                   <<>>)
    /\ UNCHANGED <<fs, cfg, apps_dir, st, stack, screen, nav>>

\* ---------------------------------------------------------------- Spec

Next ==
    \/ MainRender
    \/ \E key \in MenuKeys : MainInput(key)
    \/ SettingsRender
    \/ \E key \in SettingsKeys : SettingsInput(key)
    \/ \E key \in NameKeys, io \in CreateOutcomes : SettingsName(key, io)
    \/ \E io \in CreateOutcomes : NewCommand(io)
    \/ Scan
    \/ RenderHead
    \/ RenderBody
    \/ \E key \in MenuKeys : GroupInput(key)
    \/ AfterDescent
    \/ CheckEntrypoint
    \/ \E spawned \in BOOLEAN : Launch(spawned)
    \/ \E result \in ChildResults : ChildExit(result)
    \/ ChildInterrupted
    \/ \E key \in PauseKeys : Pause(key)
    \/ Unwind
    \/ Escape

Spec == Init /\ [][Next]_vars

\* ---------------------------------------------------------------- claims

\* A group menu has been drawn and its prompt is open.
GroupPrompt == Running /\ stack # <<>> /\ Top.pc = "input"

\* The root menu has been drawn and its prompt is open.
RootPrompt == Running /\ mm.cmd = "menu" /\ mm.pc = "input"

\* C1: "q" typed at a group menu, at any depth, raises SystemExit; from then on
\* the only steps are the frames being left, nothing is drawn and nothing is
\* launched, and the launcher ends with every level and the root loop unwound.
C1_QuitEndsSession ==
    [][ /\ (ev'.op = "GroupInput" /\ ev'.key = Line(<<"q">>))
            => raising' = "SystemExit"
        /\ raising = "SystemExit"
            => /\ ev'.op \in {"Unwind", "Escape"}
               /\ screen' = screen
               /\ \/ Len(stack') < Len(stack) /\ raising' = "SystemExit"
                  \/ stack = <<>> /\ stack' = <<>> /\ session' = "exit"
                     /\ mm'.pc = "done"
        /\ session = "exit" => FALSE ]_vars

\* "q" was typed at the group menu of depth 2 and the session has ended.
C1_Witness ==
    /\ session = "exit" /\ stack = <<>> /\ mm.cmd = "menu" /\ mm.pc = "done"
    /\ nav = Choice("group", 2, "exit")
    /\ screen.menu = "group" /\ screen.depth = 2

\* C2 as stated: after "b" at a group menu of depth d the next menu drawn is the
\* group menu of depth d-1 (d >= 2) or the root menu (d = 1).
C2_BackPopsOneLevel ==
    ((GroupPrompt \/ RootPrompt) /\ nav.menu = "group" /\ nav.act = "back")
        => IF nav.depth >= 2
           THEN screen.menu = "group" /\ screen.depth = nav.depth - 1
           ELSE screen.menu = "root" /\ apps_dir = RootPath

\* C2 as amended: after "b" at a group menu of any depth no group menu is drawn
\* again; the next menu drawn is the root menu, listing the apps root.
C2_BackReturnsToRoot ==
    (nav.menu = "group" /\ nav.act = "back")
        => \/ /\ screen.menu = "group" /\ screen.depth = nav.depth
              /\ ~GroupPrompt /\ ~RootPrompt
           \/ /\ screen.menu = "root" /\ stack = <<>> /\ apps_dir = RootPath
              /\ RootPrompt

\* "b" was typed at the group menu of depth 2 and the root menu is drawn.
C2_Witness ==
    RootPrompt /\ nav = Choice("group", 2, "back") /\ screen.menu = "root"

NumberedLines(content) == SelectSeq(content, LAMBDA l : l.num > 0)

\* C3: the choice list of a group with N >= 1 sub-entries numbers "Run this
\* app" 1 and the sub-entries 2..N+1 when the group has an entrypoint, and the
\* sub-entries 1..N when it has none, in the order of the catalog.
C3_Numbering ==
    GroupPrompt =>
        LET subs == Top.sub_apps
            N == Len(subs)
            shown == NumberedLines(screen.content)
        IN /\ N >= 1
           /\ subs = scan_sub_apps(fs, Top.app_dir)
           /\ screen.menu = "group" /\ screen.depth = Len(stack)
           /\ IF Exists(fs, app_path(Top))
              THEN /\ Len(shown) = 1 + N
                   /\ shown[1] = MenuLine(1, "run", <<>>)
                   /\ \A i \in 1..N : shown[i + 1] = MenuLine(i + 1, "sub", subs[i])
              ELSE /\ Len(shown) = N
                   /\ \A i \in 1..N : shown[i] = MenuLine(i, "sub", subs[i])

\* The menu of a group with an entrypoint and two sub-entries is drawn.
C3_Witness ==
    GroupPrompt /\ Exists(fs, app_path(Top)) /\ Len(Top.sub_apps) = 2

IsPrefix(p, q) == Len(p) <= Len(q) /\ SubSeq(q, 1, Len(p)) = p

\* The step reads a line of decimal digits at the prompt of a group menu.
NumeralAtGroup ==
    GroupPrompt /\ ev'.op = "GroupInput" /\ ev'.key.kind = "line"
    /\ int_ok(ev'.key.text)

\* The directory of the sub-entry that the level i descended into.
SelectedDir(i) ==
    Join(stack[i].app_dir, DirName(stack[i].sub_apps[stack[i].index + 1]))

\* Every level below the top is inside its descent, and the level above it is
\* the sub-entry it selected; a process is launched from the top level only.
DescentChain ==
    /\ \A i \in 1..(Len(stack) - 1) :
          /\ stack[i].pc = "call"
          /\ stack[i + 1].app_dir = SelectedDir(i)
          /\ stack[i + 1].app_name = stack[i].sub_apps[stack[i].index + 1]
    /\ ev.op = "Launch" =>
          /\ ev.target = app_path(Top)
          /\ \A i \in 1..(Len(stack) - 1) :
                IsPrefix(SelectedDir(i), ev.target) /\ ev.target # app_path(stack[i])

\* A numeral k in range descends into s[k - o] with the catalog root set to
\* the directory of the group.
DescendsInto(k) ==
    LET sel == Top.sub_apps[k - Top.offset + 1]
        new == stack'[Len(stack')]
    IN /\ Len(stack') = Len(stack) + 1
       /\ new.app_name = sel
       /\ new.app_dir = Join(Top.app_dir, DirName(sel))
       /\ apps_dir' = Top.app_dir

\* The level stays at its menu: no level is entered, nothing goes on to run.
StaysAtMenu ==
    /\ Len(stack') = Len(stack) /\ stack'[Len(stack')].pc = "head"
    /\ apps_dir' = apps_dir

\* C4 as stated: a numeral k with 0 <= k - o < N descends into s[k - o], what is
\* launched during the descent is below the selected sub-entry, and every other
\* numeral neither descends nor launches.
C4_NumeralDescends ==
    /\ []DescentChain
    /\ [][ NumeralAtGroup =>
            LET k == int_of(ev'.key.text)
            IN IF 0 <= k - Top.offset /\ k - Top.offset < Len(Top.sub_apps)
               THEN DescendsInto(k)
               ELSE StaysAtMenu ]_vars

\* C4 as amended: the same, except that the numeral "1" at a group that has an
\* entrypoint is the run-current choice and is not held to stay at the menu.
C4_NumeralDescendsOrRuns ==
    /\ []DescentChain
    /\ [][ NumeralAtGroup =>
            LET k == int_of(ev'.key.text)
            IN IF 0 <= k - Top.offset /\ k - Top.offset < Len(Top.sub_apps)
               THEN DescendsInto(k)
               ELSE \/ StaysAtMenu
                    \/ ev'.key.text = <<"1">> /\ Exists(fs, app_path(Top)) ]_vars

\* Numeral 3 picked the second sub-entry of a group with an entrypoint, a
\* numeral picked a sub-entry of that one, and its entrypoint is launched.
C4_Witness ==
    /\ ev.op = "Launch" /\ Len(stack) = 3
    /\ stack[1].offset = 2 /\ stack[1].index = 1

\* C5: when a descent returns, the level that made it restores the catalog
\* root and returns too, drawing nothing; so a group menu is only ever drawn
\* on the way down (or again after an invalid choice made at it), and after the
\* last return the root menu is next.
C5_DescentReturnsToRoot ==
    /\ [](GroupPrompt =>
            \/ nav.menu = "none" /\ Len(stack) = 1
            \/ nav = Choice("root", 0, "run") /\ Len(stack) = 1
            \/ nav = Choice("group", Len(stack) - 1, "descend")
            \/ /\ nav.menu = "group" /\ nav.depth = Len(stack)
               /\ nav.act \in {"invalid_number", "invalid_choice"})
    /\ []((Running /\ mm.cmd = "menu" /\ mm.pc = "render") => stack = <<>>)
    /\ [][ InRunApp("returned") =>
            /\ Len(stack') = Len(stack) - 1
            /\ screen' = screen
            /\ apps_dir' = Top.original_apps_dir
            /\ stack' # <<>> => stack'[Len(stack')].pc = "returned"
            /\ (stack' = <<>> /\ mm.cmd = "menu") => mm'.pc = "render" ]_vars

\* A sub-entry picked at the group menu of depth 2 has run and returned, and
\* the root menu is drawn.
C5_Witness ==
    RootPrompt /\ nav = Choice("group", 2, "descend") /\ screen.menu = "root"

IsInvalidReport(r) == r \in {"InvalidChoice", "InvalidAppNumber", "InvalidSubAppNumber"}

\* The choices the root menu offers: quit, settings, the numeral of a listed app.
RootOffers(choice, apps) ==
    \/ choice \in {<<"q">>, <<"s">>}
    \/ int_ok(choice) /\ 1 <= int_of(choice) /\ int_of(choice) <= Len(apps)

\* The choices a group menu offers: back, quit, run-current, the numeral of a
\* sub-entry.
GroupOffers(choice, fr) ==
    \/ choice \in {<<"b">>, <<"q">>}
    \/ choice = <<"1">> /\ Exists(fs, app_path(fr))
    \/ /\ int_ok(choice)
       /\ 0 <= int_of(choice) - fr.offset
       /\ int_of(choice) - fr.offset < Len(fr.sub_apps)

\* C6: any other line typed at the root menu or at a group menu is reported as
\* invalid and the same menu is drawn again: nothing is raised, no level is
\* entered or left, and the launcher keeps running.
C6_OtherInputIsInvalid ==
    [][ /\ (RootPrompt /\ ev'.op = "MainInput" /\ ev'.key.kind = "line"
            /\ ~RootOffers(ui_get_input(ev'.key), mm.apps))
            => /\ IsInvalidReport(ev'.report)
               /\ mm'.pc = "render" /\ stack' = stack
               /\ raising' = "none" /\ session' = "running"
        /\ (GroupPrompt /\ ev'.op = "GroupInput" /\ ev'.key.kind = "line"
            /\ ~GroupOffers(ev'.key.text, Top))
            => /\ IsInvalidReport(ev'.report)
               /\ stack' = SetTop([Top EXCEPT !.pc = "head"])
               /\ raising' = "none" /\ session' = "running" ]_vars

\* The entry has no bracket-named sub-directory (or does not exist).
NoSubEntries(f, dir) ==
    \A i \in 1..Len(NameOrder) :
        ~(IsDir(f, Join(dir, NameOrder[i])) /\ IsBracketed(NameOrder[i]))

\* C7: a call for an entry without sub-entries never draws a choice list; with
\* an entrypoint it goes straight to launching it, and without one it reports
\* NoEntrypoint and returns to its caller, launching nothing.
C7_LeafRunsOrReports ==
    /\ [](\A i \in 1..Len(stack) :
            NoSubEntries(fs, stack[i].app_dir)
                => /\ stack[i].content = <<>>
                   /\ stack[i].pc \in {"scan", "check", "launch", "running", "pause"})
    /\ [][ (Running /\ stack # <<>> /\ NoSubEntries(fs, Top.app_dir))
            => /\ screen' = screen
               /\ Top.pc = "scan" => stack' = SetTop([Top EXCEPT !.pc = "check"])
               /\ Top.pc = "check" =>
                    IF Exists(fs, app_path(Top))
                    THEN stack' = SetTop([Top EXCEPT !.pc = "launch"])
                    ELSE /\ ev'.report = "NoEntrypoint"
                         /\ stack' = PoppedStack
               /\ Top.pc = "launch" =>
                    /\ ev'.op \in {"Launch", "SpawnFailed"}
                    /\ ev'.target = app_path(Top) ]_vars

\* NoEntrypoint was reported for an entry whose directory does not exist.
C7_Witness ==
    /\ ev.op = "CheckEntrypoint" /\ ev.report = "NoEntrypoint"
    /\ ~Exists(fs, SubSeq(ev.target, 1, Len(ev.target) - 1))

\* C8: the apps listed at the root menu are exactly the unwrapped names of the
\* bracket-named directories below the root, "config" never among them.
C8_ListApps ==
    RootPrompt =>
        {mm.apps[i] : i \in 1..Len(mm.apps)}
            = {Unwrap(NameOrder[i]) : i \in
                  {j \in 1..Len(NameOrder) :
                      /\ IsDir(fs, <<NameOrder[j]>>)
                      /\ IsBracketed(NameOrder[j])
                      /\ Unwrap(NameOrder[j]) # Str_config
                      /\ NameOrder[j] # Str_config}}

\* C9: a child that exits with a non-zero status, or that cannot be spawned, is
\* reported as a failed run, the report holds the child's stderr or the spawn
\* error, and the launcher goes on running.
C9_FailureReported ==
    [][ /\ (ev'.op = "ChildExit" /\ ev'.result.code # 0)
            => /\ ev'.report = "RunError"
               /\ ev'.result.stderr # "" => ev'.result.stderr \in ev'.text
               /\ raising' = "none" /\ session' = "running"
        /\ ev'.op = "SpawnFailed"
            => /\ ev'.report = "RunError"
               /\ raising' = "none" /\ session' = "running" ]_vars

\* C10: the menu session ends only by quit ("q" at the root menu, "q" at a group
\* menu) or by an interruption of the launcher (an interrupt, or the end of its
\* input).
C10_NothingStopsLauncher ==
    (mm.cmd = "menu" /\ session # "running")
        => \/ session \in {"quit", "exit", "interrupted"}
           \/ session = "error" /\ ev.text = {"EOFError"}

\* C11: after every execution attempt of an entrypoint (the child has exited,
\* with any status, or could not be spawned) the next thing the launcher does
\* is to wait at "Press Enter to continue...", and no menu is drawn before.
C11_PauseAfterEveryAttempt ==
    [][ (session = "running" /\ ev.op \in {"ChildExit", "SpawnFailed"})
            => /\ ev'.op = "Pause"
               /\ screen' = screen ]_vars

\* ---------------------------------------------------------------- environment

\* The directory whose entries the open menu lists.
ListedDir == IF stack = <<>> THEN RootPath ELSE Top.app_dir

\* While a menu waits at its prompt, another process creates the app [b] (the
\* directory and its main.py) in the directory the menu lists ...
ExternalAdd ==
    /\ RootPrompt \/ GroupPrompt
    /\ Len(stack) <= MaxExtDepth
    /\ LET target == Join(ListedDir, NameB)
       IN /\ target \in AppDirs /\ IsDir(fs, ListedDir) /\ ~Exists(fs, target)
          /\ fs' = [fs EXCEPT ![target] = "dir", ![Join(target, NameMain)] = "file"]
          /\ ev' = Event("ExternalAdd", NoKey, "none", {}, target)
    /\ UNCHANGED <<cfg, apps_dir, mm, st, stack, raising, session, screen, nav>>

\* ... or removes it.
ExternalRemove ==
    /\ RootPrompt \/ GroupPrompt
    /\ Len(stack) <= MaxExtDepth
    /\ LET target == Join(ListedDir, NameB)
       IN /\ target \in AppDirs /\ Exists(fs, target)
          /\ fs' = [fs EXCEPT ![target] = "absent", ![Join(target, NameMain)] = "absent"]
          /\ ev' = Event("ExternalRemove", NoKey, "none", {}, target)
    /\ UNCHANGED <<cfg, apps_dir, mm, st, stack, raising, session, screen, nav>>

\* While a group menu is being drawn (between the test of line 187 and the
\* test of line 190) or waits at its prompt, another process writes the main.py
\* of the group ...
ExternalMainAdd ==
    /\ Running /\ stack # <<>> /\ Top.pc \in {"body", "input"}
    /\ Len(stack) <= MaxExtDepth
    /\ IsDir(fs, Top.app_dir) /\ ~Exists(fs, app_path(Top))
    /\ fs' = [fs EXCEPT ![app_path(Top)] = "file"]
    /\ ev' = Event("ExternalMainAdd", NoKey, "none", {}, app_path(Top))
    /\ UNCHANGED <<cfg, apps_dir, mm, st, stack, raising, session, screen, nav>>

\* ... or deletes it.
ExternalMainRemove ==
    /\ Running /\ stack # <<>> /\ Top.pc \in {"body", "input"}
    /\ Len(stack) <= MaxExtDepth
    /\ Exists(fs, app_path(Top))
    /\ fs' = [fs EXCEPT ![app_path(Top)] = "absent"]
    /\ ev' = Event("ExternalMainRemove", NoKey, "none", {}, app_path(Top))
    /\ UNCHANGED <<cfg, apps_dir, mm, st, stack, raising, session, screen, nav>>

NextExt ==
    \/ Next
    \/ ExternalAdd
    \/ ExternalRemove
    \/ ExternalMainAdd
    \/ ExternalMainRemove

\* The trees the launcher starts on when other processes are modelled too:
\* every app directory is there, every sub-app has its main.py, and the app
\* [a] has its main.py or not.
ExtTrees ==
    {TreeOf("dir", x) : x \in
        {y \in DeepSets :
            /\ AppDirs \subseteq y
            /\ \A d \in AppDirs \ {SpineDir(1)} : Join(d, NameMain) \in y}}

InitExt == Init /\ fs \in ExtTrees

\* The launcher together with the processes that change the tree under it.
SpecExt == InitExt /\ [][NextExt]_vars

\* The names a drawn menu lists under the given tag, in order.
Listed(content, tag) ==
    LET ls == SelectSeq(content, LAMBDA l : l.tag = tag)
    IN [i \in 1..Len(ls) |-> ls[i].name]

\* C12: every render of the root menu lists the apps that list_apps finds in
\* the tree as it is at that render, and every render of a group menu lists the
\* sub-apps that a scan of the group's directory finds at that render.
C12_RenderShowsLiveTree ==
    /\ ev.op = "MainRender" => Listed(screen.content, "app") = list_apps(fs, apps_dir).apps
    /\ ev.op = "RenderBody" =>
          Listed(screen.content, "sub") = scan_sub_apps(fs, Top.app_dir)

\* The step is a call of create_sample_app: from the name prompt of the
\* settings menu with a non-empty name, or from the command `new <name>`.
CreateStep == ev'.op \in {"SettingsName", "NewCommand"} /\ ev'.target # <<>>

\* The name that call was given.
CreatedName == IF ev'.op = "NewCommand" THEN mm.arg ELSE strip(ev'.key.text)

\* C13: create_sample_app for a name whose directory exists reports
\* AlreadyExists and leaves the whole tree, the directory and the content of
\* its main.py included, as it was.
C13_AlreadyExistsChangesNothing ==
    [][ (CreateStep /\ Exists(fs, ev'.target))
            => /\ ev'.report = "AlreadyExists"
               /\ fs' = fs ]_vars

\* AlreadyExists was reported for an app whose main.py is not the sample program.
C13_Witness ==
    /\ ev.op \in {"SettingsName", "NewCommand"} /\ ev.report = "AlreadyExists"
    /\ fs[Join(ev.target, NameMain)] = "file"

\* C14: after create_sample_app(name) succeeds, list_apps contains name, the
\* entry has its main.py and the scan of its directory finds no sub-app.
C14_CreatedAppIsListed ==
    [][ (CreateStep /\ ev'.report = "none")
            => LET apps == list_apps(fs', apps_dir).apps
                   dir == Join(apps_dir, DirName(CreatedName))
               IN /\ \E i \in 1..Len(apps) : apps[i] = CreatedName
                  /\ Exists(fs', Join(dir, NameMain))
                  /\ scan_sub_apps(fs', dir) = <<>> ]_vars

\* The step reports NoEntrypoint for the entry that was selected.
ReportsNoEntrypoint == ev'.op = "CheckEntrypoint" /\ ev'.report = "NoEntrypoint"

\* C15 as stated: after NoEntrypoint is reported for an entry selected at a
\* menu, that menu is the next one drawn: the root menu for a selection made
\* there, and the same group menu for a selection made at a group menu.
C15_NoEntrypointStaysAtLevel ==
    [][ /\ (ReportsNoEntrypoint /\ Len(stack) = 1 /\ mm.cmd = "menu")
            => stack' = <<>> /\ mm'.pc = "render"
        /\ (InRunApp("returned") /\ ev.report = "NoEntrypoint")
            => /\ Len(stack') = Len(stack)
               /\ stack'[Len(stack')].pc = "head" ]_vars

\* C15 as amended: NoEntrypoint launches nothing and draws nothing, and the
\* call returns; a selection made at the root menu leaves the root menu next,
\* and a selection made at a group menu makes that level, and every level
\* below it, return without drawing, so that the root menu is next as well.
C15_NoEntrypointReturnsToRoot ==
    [][ /\ ReportsNoEntrypoint
            => /\ screen' = screen /\ stack' = PoppedStack
               /\ (Len(stack) = 1 /\ mm.cmd = "menu") => mm'.pc = "render"
        /\ (InRunApp("returned") /\ mm.cmd = "menu")
            => /\ Len(stack') = Len(stack) - 1 /\ screen' = screen
               /\ \A i \in 1..Len(stack') : stack'[i].pc \in {"call", "returned"}
               /\ stack' # <<>> => stack'[Len(stack')].pc = "returned"
               /\ stack' = <<>> => mm'.pc = "render" ]_vars

\* NoEntrypoint was reported for a sub-entry selected at a group menu, and the
\* level of that menu is about to return.
C15_Witness ==
    /\ ev.op = "CheckEntrypoint" /\ ev.report = "NoEntrypoint"
    /\ nav.menu = "group" /\ nav.act = "descend" /\ mm.cmd = "menu"
    /\ stack # <<>> /\ Top.pc = "returned" /\ screen.menu = "group"

\* C16: at the root menu and at every group menu a typed line has the effect of
\* the same line trimmed and lower-cased: "Q" and " q " quit, " 2" selects 2.
C16_ChoicesAreNormalised ==
    [][ /\ (RootPrompt /\ ev'.op = "MainInput" /\ ev'.key.kind = "line")
            => nav'.act = main_choice(lower(strip(ev'.key.text)), mm.apps).act
        /\ (GroupPrompt /\ ev'.op = "GroupInput" /\ ev'.key.kind = "line")
            => nav'.act = group_choice(lower(strip(ev'.key.text)),
                                       Exists(fs, app_path(Top)),
                                       Top.offset, Top.sub_apps).act ]_vars

\* C17: no display name that list_apps returned is empty, and no app was
\* created under an empty name, from the settings menu or by `new <name>`.
C17_DisplayNamesNonEmpty ==
    /\ \A i \in 1..Len(mm.apps) : mm.apps[i] # <<>>
    /\ (ev.op \in {"SettingsName", "NewCommand"} /\ ev.report = "none"
        /\ ev.target # <<>>)
            => ev.target[Len(ev.target)] # DirName(<<>>)

\* C18: "b" at the root menu is reported as an invalid choice; the root menu is
\* drawn next, no level is entered and the session goes on.
C18_BackAtRootIsInvalid ==
    [][ (RootPrompt /\ ev'.op = "MainInput" /\ ui_get_input(ev'.key) = <<"b">>)
            => /\ ev'.report = "InvalidChoice"
               /\ mm'.pc = "render" /\ stack' = stack
               /\ session' = "running" /\ raising' = "none" ]_vars

\* "b" was typed at the root menu and answered with "Invalid choice.".
C18_Witness ==
    /\ ev.op = "MainInput" /\ ev.key = Line(<<"b">>) /\ ev.report = "InvalidChoice"
    /\ mm.pc = "render" /\ session = "running"

\* The root menu has just been drawn, showing "No apps available yet.", and
\* waits for a choice.
ShowsNoApps ==
    /\ RootPrompt /\ mm.apps = <<>>
    /\ \E i \in 1..Len(screen.content) : screen.content[i].tag = "no_apps"
    /\ \A i \in 1..Len(screen.content) : screen.content[i].tag # "app"

\* C19 as stated: whenever the root menu is drawn over an apps root that is
\* missing, not a directory or not readable, list_apps has reported the
\* condition and returned nothing, and the menu shows no apps.
C19_UnreadableRootIsReported ==
    (ev.op = "MainRender" /\ fs[RootPath] # "dir")
        => ev.report = "ListingError" /\ ShowsNoApps

\* C19 as amended: list_apps reports a root that is not a directory or not
\* readable; for a missing root it reports nothing (the constructor reported
\* that the root could not be created); in each case it returns nothing and the
\* menu shows no apps.
C19_UnreadableRootShowsNoApps ==
    /\ (ev.op = "MainRender" /\ fs[RootPath] # "dir")
          => /\ ev.report = (IF fs[RootPath] = "absent" THEN "none" ELSE "ListingError")
             /\ ShowsNoApps
    /\ (ev.op = "start" /\ fs[RootPath] = "absent") => ev.report = "CreateDirFailed"

\* The root menu was drawn over an apps root that is a file.
C19_Witness ==
    /\ ev.op = "MainRender" /\ fs[RootPath] = "file"
    /\ ev.report = "ListingError" /\ ShowsNoApps

\* C20: over an apps root without apps the root menu shows "No apps available
\* yet."; every line typed there other than quit and settings, numerals
\* included, is reported as invalid, the menu is drawn again and nothing is
\* entered or launched.
C20_EmptyRootAcceptsQuitAndSettings ==
    /\ []((ev.op = "MainRender" /\ mm.apps = <<>>) => ShowsNoApps)
    /\ [][ (RootPrompt /\ mm.apps = <<>> /\ ev'.op = "MainInput"
            /\ ui_get_input(ev'.key) \notin {<<"q">>, <<"s">>})
            => /\ IsInvalidReport(ev'.report)
               /\ mm'.pc = "render" /\ stack' = stack
               /\ raising' = "none" /\ session' = "running" ]_vars

\* C21: when create_sample_app has made the directory and writing main.py then
\* fails, CreateFailed is reported, the settings menu goes on, and the app is
\* listed by list_apps but has no entrypoint to run.
C21_PartialCreateIsNotRunnable ==
    [][ (CreateStep /\ ~Exists(fs, ev'.target) /\ IsDir(fs', ev'.target)
         /\ ev'.report # "none")
            => LET apps == list_apps(fs', apps_dir).apps
               IN /\ ev'.report = "CreateFailed"
                  /\ ev'.op = "SettingsName" => session' = "running" /\ raising' = "none"
                  /\ \E i \in 1..Len(apps) : apps[i] = CreatedName
                  /\ ~Exists(fs', Join(ev'.target, NameMain)) ]_vars

\* The levels whose child process is running.
RunningChildren == {i \in 1..Len(stack) : stack[i].pc = "running"}

\* C22: at most one child runs at a time, and it is the child of the innermost
\* call; a launch leaves the call waiting for its child, and until the child
\* has exited (or the launcher is interrupted) nothing is drawn and no input is
\* read.
C22_OneChildAtATime ==
    /\ [](Cardinality(RunningChildren) <= 1 /\ RunningChildren \subseteq {Len(stack)})
    /\ [][ /\ ev'.op = "Launch" => RunningChildren' = {Len(stack')}
           /\ (session = "running" /\ (RunningChildren # {} \/ ev.op = "Launch"))
                => /\ ev'.op \in {"ChildExit", "ChildInterrupted", "Unwind"}
                   /\ screen' = screen /\ ev'.key = NoKey ]_vars

\* The child of an app selected at a group menu is running.
C22_Witness ==
    /\ RunningChildren = {Len(stack)} /\ Len(stack) >= 2
    /\ ev.op = "Launch" /\ raising = "none"

\* The lines of the drawn menu that carry the number k.
Labelled(k) == SelectSeq(screen.content, LAMBDA l : l.num = k)

\* The typed line is the decimal numeral of k as a menu prints it.
IsLabelText(text) == int_ok(text) /\ (Len(text) = 1 \/ text[1] # "0")

\* C23: in the group menu as drawn, no number labels two lines, "1. Run this
\* app" is there exactly when the sub-apps are numbered from 2, and typing a
\* number that labels a line does what that line offers: run the group's own
\* entrypoint, or descend into the sub-app named on it.
C23_NumeralDoesWhatIsDisplayed ==
    /\ [](GroupPrompt =>
            /\ \A k \in 1..(Len(Top.sub_apps) + 1) : Len(Labelled(k)) <= 1
            /\ (Top.offset = 2) <=> (Len(Labelled(1)) = 1 /\ Labelled(1)[1].tag = "run"))
    /\ [][ (GroupPrompt /\ ev'.op = "GroupInput" /\ ev'.key.kind = "line"
            /\ IsLabelText(ev'.key.text)
            /\ Len(Labelled(int_of(ev'.key.text))) = 1)
            => LET line == Labelled(int_of(ev'.key.text))[1]
               IN IF line.tag = "run"
                  THEN nav'.act = "run" /\ Len(stack') = Len(stack)
                  ELSE /\ nav'.act = "descend"
                       /\ Len(stack') = Len(stack) + 1
                       /\ stack'[Len(stack')].app_name = line.name ]_vars

\* ---------------------------------------------------------------- C24

\* apps_dir as it was when the run_app call at level i of the stack was made:
\* the root for a call from main_menu or the command line, the caller's own
\* directory for a call made by a descent.
AppsDirAtCall(i) == IF i = 1 THEN RootPath ELSE stack[i - 1].app_dir

\* C24: whenever a run_app call returns or is left (normal return, back,
\* NoEntrypoint, process failure, an exception, quit raised deeper), apps_dir
\* equals its value at the time of the call; no call in progress means apps_dir
\* is the apps root, and every render of the root menu lists the original root.
C24_AppsDirRestored ==
    /\ [](/\ stack = <<>> => apps_dir = RootPath
          /\ ev.op = "MainRender" =>
                Listed(screen.content, "app") = list_apps(fs, RootPath).apps)
    /\ [][ Len(stack') < Len(stack) => apps_dir' = AppsDirAtCall(Len(stack)) ]_vars

\* quit typed two levels down has unwound every call and the root is back
C24_Witness ==
    /\ ev.op = "Unwind" /\ raising = "SystemExit" /\ stack = <<>>
    /\ nav.menu = "group" /\ nav.depth >= 2 /\ nav.act = "exit"
    /\ apps_dir = RootPath

\* ---------------------------------------------------------------- C25

EndOfInputKeys == {KeyEOF, KeyIntr}

\* C25: end of input or a keyboard interrupt at any menu prompt, root or group
\* at any depth, is treated exactly like the input "q": at the root the session
\* ends as a quit, at a group menu the call exits as it does for "q", and the
\* session never ends reported as an error or as an interrupt because of it.
C25_EndOfInputIsQuit ==
    /\ [][ (ev'.op \in {"MainInput", "GroupInput"} /\ ev'.key \in EndOfInputKeys)
            => /\ ev'.op = "MainInput" => session' = "quit" /\ nav'.act = "quit"
               /\ ev'.op = "GroupInput" =>
                    /\ nav'.act = "exit" /\ raising' = "SystemExit"
                    /\ stack' = stack /\ ev'.report = "none" ]_vars
    /\ [](ev.op = "Escape" /\ nav.menu = "group"
            => nav.act \notin {"EOFError", "KeyboardInterrupt"})

\* ---------------------------------------------------------------- C26

\* The step reads, at the prompt of the root menu, a choice made of decimal
\* digits.
NumeralAtRoot ==
    /\ RootPrompt /\ ev'.op = "MainInput" /\ ev'.key.kind = "line"
    /\ int_ok(ui_get_input(ev'.key))

\* C26: with a[0..N-1] the apps list rendered in the current iteration of the
\* root menu, a numeral k with 1 <= k <= N invokes run on a[k-1] of that
\* rendered list; any other numeral reports an invalid app number and neither
\* launches nor descends; after run returns the root menu is rendered again, from
\* a fresh listing.
C26_RootNumerals ==
    /\ [](/\ RootPrompt => screen.menu = "root" /\ Listed(screen.content, "app") = mm.apps
          /\ ev.op = "MainRender" => mm.apps = list_apps(fs, RootPath).apps)
    /\ [][ /\ NumeralAtRoot =>
                LET k == int_of(ui_get_input(ev'.key))
                    a == Listed(screen.content, "app")
                IN IF 1 <= k /\ k <= Len(a)
                   THEN /\ stack' = <<Frame(a[k], RootPath)>>
                        /\ mm'.pc = "call" /\ ev'.report = "none"
                        /\ nav'.act = "run"
                   ELSE /\ stack' = <<>> /\ ev'.report = "InvalidAppNumber"
                        /\ mm'.pc = "render" /\ session' = "running"
                        /\ raising' = "none"
           /\ (mm.cmd = "menu" /\ Len(stack) = 1 /\ stack' = <<>> /\ raising' = "none")
                => mm'.pc = "render" /\ session' = "running" ]_vars

\* " 2" typed at a root menu that lists two apps or more has called run_app on
\* the second one
C26_Witness ==
    /\ ev.op = "MainInput" /\ ev.key = Line(<<" ", "2">>)
    /\ Len(mm.apps) >= 2 /\ Len(stack) = 1
    /\ stack[1].app_name = mm.apps[2] /\ stack[1].pc = "scan"

\* ---------------------------------------------------------------- alias commands

\* Lines of a shell configuration file that are no part of an alias block.
ExportA == "export A=1"
ExportB == "export B=2"

PlainLines == {ExportA, ExportB, BlankLine}

\* The files of at most n lines over the given lines, with every combination of
\* read and write permission, and the missing file.
ConfigFiles(lines, n) ==
    { [exists |-> TRUE, lines |-> l, readable |-> r, writable |-> w] :
        l \in UNION {[1..k -> lines] : k \in 0..n}, r \in BOOLEAN, w \in BOOLEAN }
    \cup {NoCfg(TRUE), NoCfg(FALSE)}

\* Files that hold no marker.
FreshFiles == ConfigFiles(PlainLines, MaxInitLen)

\* Files with any arrangement of markers, alias lines and other lines.
AnyFiles == ConfigFiles({ExportA, ExportB, MarkerStart, AliasLine, MarkerEnd}, MaxInitLen)

\* The launcher is started with a command `alias add` or `alias remove`, once
\* per step, on the same configuration file.
AliasSession ==
    /\ fs = TreeOf("dir", {})
    /\ apps_dir = RootPath
    /\ mm = [cmd |-> "alias", arg |-> <<>>, pc |-> "call", apps |-> <<>>,
             alias_set |-> FALSE]
    /\ st = [pc |-> "idle", alias_set |-> FALSE]
    /\ stack = <<>>
    /\ raising = "none"
    /\ session = "running"
    /\ screen = NoScreen
    /\ nav = Choice("none", 0, "none")
    /\ ev = Event("start", NoKey, "none", {}, <<>>)

InitAlias == AliasSession /\ cfg \in AnyFiles

InitFresh == AliasSession /\ cfg \in FreshFiles

\* process_command_line, lines 142-144: `alias add`
AliasAdd ==
    /\ mm.cmd = "alias"
    /\ Len(cfg.lines) + Len(alias_block) <= MaxAliasLen
    /\ cfg' = add_alias(cfg).file
    /\ ev' = Event("AliasAdd", NoKey, add_alias(cfg).report, {}, <<>>)
    /\ UNCHANGED <<fs, apps_dir, mm, st, stack, raising, session, screen, nav>>

\* process_command_line, lines 145-146: `alias remove`
AliasRemove ==
    /\ mm.cmd = "alias"
    /\ cfg' = remove_alias(cfg).file
    /\ ev' = Event("AliasRemove", NoKey, remove_alias(cfg).report, {}, <<>>)
    /\ UNCHANGED <<fs, apps_dir, mm, st, stack, raising, session, screen, nav>>

NextAlias == AliasAdd \/ AliasRemove

SpecAlias == InitAlias /\ [][NextAlias]_vars

SpecFresh == InitFresh /\ [][NextAlias]_vars

\* ---------------------------------------------------------------- C27

\* The positions at which an alias block starts: start marker, alias line, end
\* marker.
BlockStarts(lines) ==
    { i \in 1..(Len(lines) - 2) :
        /\ lines[i] = MarkerStart
        /\ lines[i + 1] = AliasLine
        /\ lines[i + 2] = MarkerEnd }

\* C27: after any sequence of add_alias and remove_alias on a file that held no
\* marker at first, the file holds at most one alias block, is_alias_set is true
\* exactly when a block is present, and add_alias on a file where the alias is
\* set changes nothing.
C27_AtMostOneAliasBlock ==
    /\ [](/\ Cardinality(BlockStarts(cfg.lines)) <= 1
          /\ is_alias_set(cfg) <=> BlockStarts(cfg.lines) # {})
    /\ [][ (ev'.op = "AliasAdd" /\ is_alias_set(cfg)) => cfg' = cfg ]_vars

\* ---------------------------------------------------------------- C28

RECURSIVE OutsideBlocks(_)
\* The lines that are no marker and lie in no alias block, in their order; a
\* block runs from a start marker through the first end marker after it, and a
\* start marker that no end marker follows opens no block.
OutsideBlocks(lines) ==
    IF lines = <<>> THEN <<>>
    ELSE IF Head(lines) = MarkerStart /\ \E j \in 2..Len(lines) : lines[j] = MarkerEnd
    THEN LET j == CHOOSE k \in 2..Len(lines) :
                    /\ lines[k] = MarkerEnd
                    /\ \A m \in 2..(k - 1) : lines[m] # MarkerEnd
         IN OutsideBlocks(SubSeq(lines, j + 1, Len(lines)))
    ELSE IF Head(lines) \in {MarkerStart, MarkerEnd} THEN OutsideBlocks(Tail(lines))
    ELSE <<Head(lines)>> \o OutsideBlocks(Tail(lines))

\* The lines that are no marker, in their order.
Unmarked(lines) == SelectSeq(lines, LAMBDA l : l \notin {MarkerStart, MarkerEnd})

\* C28: remove_alias removes only the lines from the start marker through the
\* end marker: every line of the file outside an alias block is still there,
\* in its original order, after remove_alias, whatever the file holds, a start
\* marker without a following end marker included.
C28_RemoveKeepsOtherLines ==
    [][ (ev'.op = "AliasRemove" /\ ev'.report = "none")
            => Unmarked(cfg'.lines) = OutsideBlocks(cfg.lines) ]_vars

====
